---- MODULE Spec2Model ----
(***************************************************************************)
(* A state-machine model of src/src/main.rs: the run loop of main, the     *)
(* per-repository pipeline build_repo (sync, merge, build, copy), the lock *)
(* store, and the file selection of copy_tests.                            *)
(*                                                                         *)
(* Every external command issued through run() is one step of the model   *)
(* and may exit zero or non-zero; what a command does to the clone when it *)
(* exits zero is the documented effect of that git command.                *)
(*                                                                         *)
(* Spec       the run loop for a root repository and a child of it         *)
(* SpecEmit   the run loop for one repository under every configuration    *)
(*            of skip flags and directives                                 *)
(* SpecSelect the include/exclude test of copy_tests for any pattern sets  *)
(* SpecFiles  the change set and the selection for the files of one tree   *)
(* SpecLock   Lock::set_commit on any lock store                           *)
(***************************************************************************)
EXTENDS Integers, Sequences, FiniteSets, TLC

\* ------------------------------------------------------------------ bounds
MaxPatLen == 2      \* characters of an include or exclude pattern
MaxRelLen == 2      \* characters of a file's path below the directory scanned
MaxPushes == 1      \* pushes to the upstream default branches, all repositories together
MaxLock == 2        \* entries of the config-lock.toml a run starts from
MaxCommit == 2      \* commits a lock entry can name

\* ------------------------------------------------------------ configuration
None == "none"

\* Option<String> of a directive: no value, or the string as its characters
NoString == <<>>
Some(s) == <<s>>

\* config.toml: a root repository and a child layered on it, in processing order
Config0 ==
  [ harness_directive |-> Some(<<"h">>),
    directive         |-> NoString,
    repos |-> << [name |-> "A", parent |-> None, directive |-> NoString,
                  skip_wast |-> FALSE, skip_wpt |-> FALSE, skip_js |-> FALSE],
                 [name |-> "B", parent |-> "A",  directive |-> Some(<<"d">>),
                  skip_wast |-> FALSE, skip_wpt |-> FALSE, skip_js |-> FALSE] >> ]

VARIABLES
  config,         \* the Config main parsed from config.toml
  pc,             \* position of main / build_repo
  idx,            \* index into config.repos of the loop at main:205
  cwd,            \* the process's current directory
  guards,         \* live change_dir guards, innermost first: their `previous`
  lock,           \* the Lock value held by main
  diskLock,       \* content of config-lock.toml (<<>> when absent)
  lockWrites,     \* writes of config-lock.toml in this invocation
  successes,      \* main: Vec of (name, Status)
  failures,       \* main: Vec of (name, Error)
  exitCode,       \* exit status of the finished invocation, -1 while running
  outputs,        \* what the run root holds besides the clones: directories
                  \* files were copied into, directive files with their text
  git,            \* per repository: the clone under repos/<name>
  upstream,       \* per repository: tip of the default branch at its url
  commit_base_hash, merged, built, commit_final_message,  \* build_repo locals
  parent_test_path, \* build_repo:358: the tree the files were compared with
  trace,          \* commands and copies of the current build_repo call, with exit
  selection       \* a copy_tests call looked at by itself: its pattern sets,
                  \* the paths find("./") has still to yield, the paths copied

Names == {config.repos[i].name : i \in 1..Len(config.repos)}

\* Config::find_repo
find_repo(name) ==
  config.repos[CHOOSE i \in 1..Len(config.repos) :
                 /\ config.repos[i].name = name
                 /\ \A j \in 1..(i-1) : config.repos[j].name # name]

\* -------------------------------------------------------------- lock store
\* Lock::find_commit: the commit of the first entry for name; 0 stands for None
find_commit(l, name) ==
  IF \E i \in 1..Len(l) : l[i].name = name
  THEN l[CHOOSE i \in 1..Len(l) :
           /\ l[i].name = name
           /\ \A j \in 1..(i-1) : l[j].name # name].commit
  ELSE 0

\* an entry is appended whether or not the name has one
set_commit_push(l, name, commit) == Append(l, [name |-> name, commit |-> commit])

\* Lock::set_commit: overwrite the first entry for name, or append one
set_commit(l, name, commit) ==
  IF \E i \in 1..Len(l) : l[i].name = name
  THEN LET k == CHOOSE i \in 1..Len(l) :
                  /\ l[i].name = name
                  /\ \A j \in 1..(i-1) : l[j].name # name
       IN [l EXCEPT ![k].commit = commit]
  ELSE Append(l, [name |-> name, commit |-> commit])

\* -------------------------------------------------------------------- paths
\* A directory is a sequence of components below the run root; <<>> is the root.
RECURSIVE Normalize(_, _)
Normalize(done, rest) ==
  IF rest = <<>> THEN done
  ELSE IF Head(rest) = ".."
       THEN Normalize(IF done = <<>> THEN <<>> ELSE SubSeq(done, 1, Len(done) - 1),
                      Tail(rest))
       ELSE Normalize(Append(done, Head(rest)), Tail(rest))

\* the directory a relative path names when the process is in directory d
Resolve(d, rel) == Normalize(d, rel)

runVars == <<lock, diskLock, lockWrites, exitCode, selection, config>>
locals  == <<commit_base_hash, merged, built, commit_final_message, parent_test_path>>
vars == <<config, pc, idx, cwd, guards, lock, diskLock, lockWrites, successes,
          failures, exitCode, outputs, git, upstream, commit_base_hash, merged,
          built, commit_final_message, parent_test_path, trace, selection>>

Root == <<>>

\* the repository build_repo is working on
Cur == config.repos[idx]
repo_dir(name) == <<"repos", name>>

NoTree == [base |-> 0, par |-> 0]
NoClone ==
  [ exists |-> FALSE,     \* repos/<name> exists
    cloned |-> FALSE,     \* git clone has populated it
    remote |-> FALSE,     \* the remote "parent" is registered
    trybranch |-> FALSE,  \* the branch try-merge exists
    head |-> "master",    \* the checked-out branch
    master |-> 0,         \* commit master points at
    try |-> NoTree,       \* what try-merge points at: base commit, merged parent commit
    origin |-> 0,         \* origin/master
    parentref |-> 0,      \* parent/master
    merging |-> FALSE,    \* a merge is in progress (MERGE_HEAD exists)
    staged |-> FALSE,     \* the index holds changes not in HEAD
    gen |-> "none" ]      \* the generated ./js and ./wpt: none (no file), fresh
                          \* (files of the latest invocation of the tool only),
                          \* stale (some file of an earlier invocation)

\* the tree checked out in a clone
WorkTree(g) == IF g.head = "master" THEN [base |-> g.master, par |-> 0] ELSE g.try

\* the reset leaves the branch where it is
ResetHard_Keep(g, c) == g

\* git reset <commit> --hard on the checked-out branch
ResetHard(g, c) ==
  IF g.head = "master"
  THEN [g EXCEPT !.master = c, !.merging = FALSE, !.staged = FALSE]
  ELSE [g EXCEPT !.try = [base |-> c, par |-> 0], !.merging = FALSE, !.staged = FALSE]

NoSelection == [include |-> {}, exclude |-> {}, todo |-> {}, seen |-> {}, copied |-> {}]

\* the state after main:188-203 in a directory that holds no clone
Init ==
  /\ config = Config0
  /\ pc = "loop"
  /\ idx = 1
  /\ cwd = Root
  /\ guards = <<>>
  /\ diskLock = <<>>
  /\ lock = diskLock
  /\ lockWrites = 0
  /\ successes = <<>>
  /\ failures = <<>>
  /\ exitCode = -1
  /\ outputs = {}
  /\ git = [n \in Names |-> NoClone]
  /\ upstream = [n \in Names |-> 1]
  /\ commit_base_hash = 0
  /\ merged = None
  /\ built = TRUE
  /\ commit_final_message = NoTree
  /\ parent_test_path = NoTree
  /\ trace = <<>>
  /\ selection = NoSelection


\* ------------------------------------------------------- returning to main
\* the guard is not dropped on the way out
ErrorExitCwd_NoDrop(c, g) == c

\* Where the process is once build_repo has returned through `?`: every live
\* guard is dropped, innermost first, so the outermost `previous` wins.
ErrorExitCwd(c, g) == IF g = <<>> THEN c ELSE g[Len(g)]

\* the loop of main stops at the first Err
ReturnErr_Break(cmd) ==
  /\ trace' = Append(trace, <<cmd, FALSE>>)
  /\ cwd' = ErrorExitCwd(cwd, guards)
  /\ guards' = <<>>
  /\ failures' = Append(failures, [name |-> Cur.name, err |-> cmd])
  /\ idx' = Len(config.repos) + 1
  /\ pc' = "loop"
  /\ UNCHANGED <<successes, runVars, outputs, upstream, locals>>

\* run() exited non-zero at a `?`: build_repo returns Err, main records it (210)
ReturnErr(cmd) ==
  /\ trace' = Append(trace, <<cmd, FALSE>>)
  /\ cwd' = ErrorExitCwd(cwd, guards)
  /\ guards' = <<>>
  /\ failures' = Append(failures, [name |-> Cur.name, err |-> cmd])
  /\ idx' = idx + 1
  /\ pc' = "loop"
  /\ UNCHANGED <<successes, runVars, outputs, upstream, locals>>

\* run() exited zero: on to the next statement
Proceed(cmd, next) ==
  /\ trace' = Append(trace, <<cmd, TRUE>>)
  /\ pc' = next
  /\ UNCHANGED <<cwd, guards, failures, successes, idx, runVars, outputs, upstream>>

\* a statement that issues no command
Goto(next) ==
  /\ pc' = next
  /\ UNCHANGED <<trace, failures, successes, idx, runVars, upstream>>

G == git[Cur.name]
SetGit(g) == git' = [git EXCEPT ![Cur.name] = g]

\* the locals of a build_repo call that is over
Forgotten ==
  /\ commit_base_hash' = 0
  /\ merged' = None
  /\ built' = TRUE
  /\ commit_final_message' = NoTree
  /\ parent_test_path' = NoTree
  /\ trace' = <<>>

\* ------------------------------------------------------------ the run loop
\* clean(): create ./repos, remove ./tests
clean(out) == {d \in out : ~(Len(d.path) >= 1 /\ d.path[1] = "tests")}

\* every upstream starts with one commit; each push adds one
RECURSIVE SumOver(_, _)
SumOver(f, S) == IF S = {} THEN 0 ELSE LET x == CHOOSE y \in S : TRUE
                                       IN f[x] + SumOver(f, S \ {x})
Pushes(up) == SumOver(up, Names) - Cardinality(Names)

\* the environment: somebody has pushed to a repository's default branch by
\* the time the run loop starts
UpstreamPush(n) ==
  /\ pc = "loop"
  /\ idx = 1
  /\ Pushes(upstream) < MaxPushes
  /\ upstream' = [upstream EXCEPT ![n] = @ + 1]
  /\ UNCHANGED <<pc, idx, cwd, guards, lock, diskLock, lockWrites, successes,
                 failures, exitCode, outputs, git, locals, trace, selection, config>>

\* main:205-208 and build_repo:250-254: the next repository, its directory
BeginRepo ==
  /\ pc = "loop"
  /\ idx <= Len(config.repos)
  /\ trace' = <<>>
  /\ commit_base_hash' = 0
  /\ merged' = None
  /\ built' = TRUE
  /\ commit_final_message' = NoTree
  /\ parent_test_path' = NoTree
  /\ IF G.exists
     THEN pc' = "cd" /\ UNCHANGED git
     ELSE pc' = "clone" /\ SetGit([G EXCEPT !.exists = TRUE])
  /\ UNCHANGED <<idx, cwd, guards, lock, diskLock, lockWrites, successes,
                 failures, exitCode, outputs, upstream, selection, config>>

\* ------------------------------------------------ build_repo: initialise
\* build_repo:263 / 270
Clone ==
  /\ pc = "clone"
  /\ \/ /\ Proceed("clone", IF Cur.parent # None THEN "remote_add" ELSE "cd")
        /\ SetGit([G EXCEPT !.cloned = TRUE, !.head = "master",
                            !.master = upstream[Cur.name],
                            !.origin = upstream[Cur.name]])
        /\ UNCHANGED locals
     \/ ReturnErr("clone") /\ UNCHANGED git

\* build_repo:264-267
RemoteAdd ==
  /\ pc = "remote_add"
  /\ \/ /\ Proceed("remote_add", "branch")
        /\ SetGit([G EXCEPT !.remote = TRUE])
        /\ UNCHANGED locals
     \/ ReturnErr("remote_add") /\ UNCHANGED git

\* build_repo:268
Branch ==
  /\ pc = "branch"
  /\ \/ /\ Proceed("branch", "cd")
        /\ SetGit([G EXCEPT !.trybranch = TRUE, !.try = [base |-> G.master, par |-> 0]])
        /\ UNCHANGED locals
     \/ ReturnErr("branch") /\ UNCHANGED git

\* ------------------------------------------------------ build_repo: sync
\* change_dir(dir): remember the current directory, enter dir
change_dir_guards(c, g) == <<c>> \o g
change_dir_cwd(c, dir) == Resolve(c, dir)

\* build_repo:276
Cd ==
  /\ pc = "cd"
  /\ guards' = change_dir_guards(cwd, guards)
  /\ cwd' = change_dir_cwd(cwd, repo_dir(Cur.name))
  /\ Goto("fetch_origin")
  /\ UNCHANGED <<git, locals, outputs>>

\* build_repo:279
FetchOrigin ==
  /\ pc = "fetch_origin"
  /\ \/ /\ G.cloned
        /\ Proceed("fetch_origin", "checkout_master")
        /\ SetGit([G EXCEPT !.origin = upstream[Cur.name]])
        /\ UNCHANGED locals
     \/ ReturnErr("fetch_origin") /\ UNCHANGED git

\* build_repo:283
CheckoutMaster ==
  /\ pc = "checkout_master"
  /\ \/ /\ Proceed("checkout_master", "reset_base")
        /\ SetGit([G EXCEPT !.head = "master"])
        /\ UNCHANGED locals
     \/ ReturnErr("checkout_master") /\ UNCHANGED git

\* the lock is not consulted
base_treeish_tip(l, name) == [ref |-> "origin/master", commit |-> 0]

\* build_repo:282: the lock's commit for the name, else the upstream tip
base_treeish(l, name) ==
  IF find_commit(l, name) # 0
  THEN [ref |-> "commit", commit |-> find_commit(l, name)]
  ELSE [ref |-> "origin/master", commit |-> 0]

\* the commit a treeish names in a clone
rev_parse(g, treeish) ==
  IF treeish.ref = "origin/master" THEN g.origin ELSE treeish.commit

\* build_repo:284
ResetBase ==
  /\ pc = "reset_base"
  /\ \/ /\ Proceed("reset_base", "log_hash")
        /\ SetGit(ResetHard(G, rev_parse(G, base_treeish(lock, Cur.name))))
        /\ UNCHANGED locals
     \/ ReturnErr("reset_base") /\ UNCHANGED git

\* build_repo:285-289, 315
LogHash ==
  /\ pc = "log_hash"
  /\ \/ /\ Proceed("log_hash", IF Cur.parent # None THEN "fetch_parent" ELSE "build1")
        /\ commit_base_hash' = WorkTree(G).base
        /\ merged' = IF Cur.parent # None THEN merged ELSE "Unmerged"
        /\ UNCHANGED <<git, built, commit_final_message, parent_test_path>>
     \/ ReturnErr("log_hash") /\ UNCHANGED git

\* ----------------------------------------------------- build_repo: merge
Parent == find_repo(Cur.parent)

\* build_repo:291
FetchParent ==
  /\ pc = "fetch_parent"
  /\ \/ /\ G.remote
        /\ Proceed("fetch_parent", "checkout_try")
        /\ SetGit([G EXCEPT !.parentref = upstream[Parent.name]])
        /\ UNCHANGED locals
     \/ ReturnErr("fetch_parent") /\ UNCHANGED git

\* build_repo:292
CheckoutTry ==
  /\ pc = "checkout_try"
  /\ \/ /\ G.trybranch
        /\ Proceed("checkout_try", "reset_try")
        /\ SetGit([G EXCEPT !.head = "try-merge"])
        /\ UNCHANGED locals
     \/ ReturnErr("checkout_try") /\ UNCHANGED git

\* build_repo:293
ResetTry ==
  /\ pc = "reset_try"
  /\ \/ /\ Proceed("reset_try", "merge")
        /\ SetGit(ResetHard(G, commit_base_hash))
        /\ UNCHANGED locals
     \/ ReturnErr("reset_try") /\ UNCHANGED git

\* a merge commit of the parent's tip on top of the base is made
MergeCommitted(g) ==
  [g EXCEPT !.try = [base |-> g.try.base, par |-> g.parentref],
            !.merging = FALSE, !.staged = FALSE]

\* build_repo:297, 311-313: the automatic merge; exiting non-zero it leaves a
\* merge in progress when it stopped on conflicts, and none otherwise
Merge ==
  /\ pc = "merge"
  /\ \/ /\ Proceed("merge", "build1")
        /\ SetGit(MergeCommitted(G))
        /\ merged' = "Merged"
        /\ UNCHANGED <<commit_base_hash, built, commit_final_message, parent_test_path>>
     \/ \E conflict \in BOOLEAN :
          /\ trace' = Append(trace, <<"merge", FALSE>>)
          /\ pc' = "ours"
          /\ SetGit([G EXCEPT !.merging = conflict])
          /\ UNCHANGED <<cwd, guards, failures, successes, idx, runVars, outputs,
                         upstream, locals>>

\* the non-zero exit of an override command is propagated with `?`
Tested_Propagate(cmd, okNext, g) ==
  \/ /\ Proceed(cmd, okNext)
     /\ SetGit(g)
     /\ UNCHANGED locals
  \/ ReturnErr(cmd) /\ UNCHANGED git

\* a command of the override whose non-zero exit is tested with is_ok()
Tested(cmd, okNext, g) ==
  \/ /\ Proceed(cmd, okNext)
     /\ SetGit(g)
     /\ UNCHANGED locals
  \/ /\ trace' = Append(trace, <<cmd, FALSE>>)
     /\ pc' = "abort"
     /\ UNCHANGED <<cwd, guards, failures, successes, idx, runVars, outputs,
                    upstream, git, locals>>

\* build_repo:299
CheckoutOurs ==
  /\ pc = "ours"
  /\ Tested("ours", "add", G)

\* build_repo:300
AddDocument ==
  /\ pc = "add"
  /\ Tested("add", "continue", [G EXCEPT !.staged = TRUE])

\* build_repo:301, 308-309: merge --continue needs a merge in progress
MergeContinue ==
  /\ pc = "continue"
  /\ \/ /\ G.merging
        /\ Proceed("continue", "build1")
        /\ SetGit(MergeCommitted(G))
        /\ merged' = "Merged"
        /\ UNCHANGED <<commit_base_hash, built, commit_final_message, parent_test_path>>
     \/ /\ trace' = Append(trace, <<"continue", FALSE>>)
        /\ pc' = "abort"
        /\ UNCHANGED <<cwd, guards, failures, successes, idx, runVars, outputs,
                       upstream, git, locals>>

\* the failed override is reported as Conflicted with the merge left as it is
MergeAbort_Skip ==
  /\ pc = "abort"
  /\ pc' = "build1"
  /\ merged' = "Conflicted"
  /\ UNCHANGED <<trace, cwd, guards, failures, successes, idx, runVars, outputs,
                 upstream, git, commit_base_hash, built, commit_final_message, parent_test_path>>

\* build_repo:305: merge --abort needs a merge in progress; it restores the
\* tree and the index the merge started from
MergeAbort ==
  /\ pc = "abort"
  /\ \/ /\ G.merging
        /\ Proceed("abort", "reset_conflict")
        /\ SetGit([G EXCEPT !.merging = FALSE, !.staged = FALSE])
        /\ UNCHANGED locals
     \/ ReturnErr("abort") /\ UNCHANGED git

\* build_repo:306-307
ResetConflict ==
  /\ pc = "reset_conflict"
  /\ \/ /\ Proceed("reset_conflict", "build1")
        /\ SetGit(ResetHard(G, commit_base_hash))
        /\ merged' = "Conflicted"
        /\ UNCHANGED <<commit_base_hash, built, commit_final_message, parent_test_path>>
     \/ ReturnErr("reset_conflict") /\ UNCHANGED git

\* ----------------------------------------------------- build_repo: build
\* fs::remove_dir_all of ./js and ./wpt (320-321), its result discarded: what
\* the tool finds of the files written before it
remove_dir_all(gen, removed) == IF removed \/ gen = "none" THEN "none" ELSE "stale"

\* build_tests (319-326): remove ./js and ./wpt, the result of the removal
\* being discarded (`let _ =`), then run test/build.py, which writes files
\* when it exits zero and may have written some when it does not
build_tests(g, removed, wrote) ==
  [g EXCEPT !.gen = IF remove_dir_all(g.gen, removed) = "stale" THEN "stale"
                    ELSE IF wrote THEN "fresh" ELSE "none"]

\* no retry at all
after_failed_build_noretry(r) == "log_msg"
\* a retry for every repository
after_failed_build_always(r) == "retry_reset"

\* build_repo:329-331, 334-336: what follows a failed first build
after_failed_build(r) == IF r.parent # None THEN "retry_reset" ELSE "log_msg"

\* build_repo:328-330, 335
Build1 ==
  /\ pc = "build1"
  /\ \/ /\ Proceed("build", "log_msg")
        /\ \E removed \in BOOLEAN : SetGit(build_tests(G, removed, TRUE))
        /\ built' = TRUE
        /\ UNCHANGED <<commit_base_hash, merged, commit_final_message, parent_test_path>>
     \/ /\ trace' = Append(trace, <<"build", FALSE>>)
        /\ pc' = after_failed_build(Cur)
        /\ \E removed, wrote \in BOOLEAN : SetGit(build_tests(G, removed, wrote))
        /\ built' = IF after_failed_build(Cur) = "retry_reset" THEN built ELSE FALSE
        /\ UNCHANGED <<cwd, guards, failures, successes, idx, runVars, outputs,
                       upstream, commit_base_hash, merged, commit_final_message, parent_test_path>>

\* build_repo:332
RetryReset ==
  /\ pc = "retry_reset"
  /\ \/ /\ Proceed("retry_reset", "build2")
        /\ SetGit(ResetHard(G, commit_base_hash))
        /\ UNCHANGED locals
     \/ ReturnErr("retry_reset") /\ UNCHANGED git

\* build_repo:333
Build2 ==
  /\ pc = "build2"
  /\ \E ok \in BOOLEAN :
       /\ trace' = Append(trace, <<"build", ok>>)
       /\ pc' = "log_msg"
       /\ \E removed, wrote \in BOOLEAN :
            /\ ok => wrote
            /\ SetGit(build_tests(G, removed, wrote))
       /\ built' = ok
       /\ UNCHANGED <<cwd, guards, failures, successes, idx, runVars, outputs,
                      upstream, commit_base_hash, merged, commit_final_message, parent_test_path>>

\* ------------------------------------------------------ build_repo: copy
Categories == {"wast", "wpt", "js"}
test_dir(cat) == IF cat = "wast" THEN <<"test", "core">> ELSE <<cat>>
CdPc   == [wast |-> "cd_wast",   wpt |-> "cd_wpt",   js |-> "cd_js"]
CopyPc == [wast |-> "copy_wast", wpt |-> "copy_wpt", js |-> "copy_js"]

\* the repository's directive comes first
directives_repo_first(r) ==
  (IF r.directive # NoString THEN r.directive[1] ELSE <<>>)
  \o (IF config.directive # NoString THEN config.directive[1] ELSE <<>>)

\* build_repo:418-422: the global directive followed by the repository's
directives(r) ==
  (IF config.directive # NoString THEN config.directive[1] ELSE <<>>)
  \o (IF r.directive # NoString THEN r.directive[1] ELSE <<>>)

\* build_repo:423
after_harness(r) == IF directives(r) # <<>> THEN "write_directives" ELSE "return_ok"
\* build_repo:412
after_js(r) == IF config.harness_directive # NoString THEN "write_harness" ELSE after_harness(r)
\* build_repo:408
after_wpt(r, b) == IF b /\ ~r.skip_js THEN CdPc["js"] ELSE "return_ok"
\* the build outcome is not looked at
after_wast_unbuilt(r, b) == IF ~r.skip_wpt THEN CdPc["wpt"] ELSE after_wpt(r, b)
\* build_repo:405
after_wast(r, b) == IF b /\ ~r.skip_wpt THEN CdPc["wpt"] ELSE after_wpt(r, b)
\* build_repo:402
after_log(r, b) == IF ~r.skip_wast THEN CdPc["wast"] ELSE after_wast(r, b)

after_copy(cat, r, b) ==
  IF cat = "wast" THEN after_wast(r, b)
  ELSE IF cat = "wpt" THEN after_wpt(r, b)
  ELSE after_js(r)

\* build_repo:358: what `../<parent>/test/core` holds is what is checked out
\* in the parent's clone
diff_against(r) == IF r.parent # None THEN WorkTree(git[r.parent]) ELSE NoTree

\* build_repo:340-380: the final message, then the change set
LogMsg ==
  /\ pc = "log_msg"
  /\ \/ /\ Proceed("log_msg", after_log(Cur, built))
        /\ commit_final_message' = WorkTree(G)
        /\ parent_test_path' = diff_against(Cur)
        /\ UNCHANGED <<git, commit_base_hash, merged, built>>
     \/ ReturnErr("log_msg") /\ UNCHANGED git

\* copy_tests:383
CopyCd(cat) ==
  /\ pc = CdPc[cat]
  /\ guards' = change_dir_guards(cwd, guards)
  /\ cwd' = change_dir_cwd(cwd, test_dir(cat))
  /\ Goto(CopyPc[cat])
  /\ UNCHANGED <<git, locals, outputs>>

\* copy_tests:392-395: where the files of a category are written
out_path(c, cat, name) == Resolve(c, <<"..", "..", "..", "tests", cat, name>>)

\* a directory files were copied into
Dir(path) == [kind |-> "dir", path |-> path, text |-> <<>>]
\* a file written by write_string
File(path, text) == [kind |-> "file", path |-> path, text |-> text]

\* copy_tests:385-400: the files are copied, the guard is dropped
CopyFiles(cat) ==
  /\ pc = CopyPc[cat]
  /\ outputs' = outputs \cup {Dir(out_path(cwd, cat, Cur.name))}
  /\ cwd' = Head(guards)
  /\ guards' = Tail(guards)
  /\ trace' = Append(trace, <<CopyPc[cat], TRUE>>)
  /\ pc' = after_copy(cat, Cur, built)
  /\ UNCHANGED <<failures, successes, idx, runVars, upstream, git, locals>>

\* copy_tests:398: fs::copy(..).unwrap() panics, the process dies
CopyPanic(cat) ==
  /\ pc = CopyPc[cat]
  /\ pc' = "exited"
  /\ exitCode' = 101
  /\ cwd' = ErrorExitCwd(cwd, guards)
  /\ guards' = <<>>
  /\ Forgotten
  /\ UNCHANGED <<idx, lock, diskLock, lockWrites, successes, failures, outputs,
                 git, upstream, selection, config>>

\* build_repo:412-417
WriteHarness ==
  /\ pc = "write_harness"
  /\ \/ /\ trace' = Append(trace, <<"write_harness", TRUE>>)
        /\ pc' = after_harness(Cur)
        /\ outputs' = outputs \cup
             {File(Resolve(cwd, <<"..", "..", "tests", "js", Cur.name, "harness",
                                  "directives.txt">>),
                   config.harness_directive[1])}
        /\ UNCHANGED <<cwd, guards, failures, successes, idx, runVars, upstream,
                       git, locals>>
     \/ ReturnErr("write_harness") /\ UNCHANGED git

\* build_repo:423-428
WriteDirectives ==
  /\ pc = "write_directives"
  /\ \/ /\ trace' = Append(trace, <<"write_directives", TRUE>>)
        /\ pc' = "return_ok"
        /\ outputs' = outputs \cup
             {File(Resolve(cwd, <<"..", "..", "tests", "js", Cur.name, "directives.txt">>),
                   directives(Cur))}
        /\ UNCHANGED <<cwd, guards, failures, successes, idx, runVars, upstream,
                       git, locals>>
     \/ ReturnErr("write_directives") /\ UNCHANGED git

\* build_repo:431-437, main:209: Ok(Status), the guard of line 276 is dropped
ReturnOk ==
  /\ pc = "return_ok"
  /\ successes' = Append(successes,
         [name |-> Cur.name,
          status |-> [commit_base_hash |-> commit_base_hash,
                      commit_final_message |-> commit_final_message,
                      merged |-> merged, built |-> built]])
  /\ cwd' = Head(guards)
  /\ guards' = Tail(guards)
  /\ idx' = idx + 1
  /\ pc' = "loop"
  /\ UNCHANGED <<failures, runVars, outputs, upstream, git, locals, trace>>

\* ------------------------------------------------------- main: the ending
\* main:223-225: every success pins its base commit
RECURSIVE pin(_, _)
pin(l, succ) ==
  IF succ = <<>> THEN l
  ELSE pin(set_commit(l, Head(succ).name, Head(succ).status.commit_base_hash), Tail(succ))

\* the lock is written before the failures are looked at
ExitFailed_Persist ==
  /\ pc = "loop"
  /\ idx > Len(config.repos)
  /\ failures # <<>>
  /\ lock' = pin(lock, successes)
  /\ diskLock' = lock'
  /\ lockWrites' = lockWrites + 1
  /\ exitCode' = 1
  /\ pc' = "exited"
  /\ Forgotten
  /\ UNCHANGED <<idx, cwd, guards, successes, failures, outputs, git, upstream,
                 selection, config>>

\* main:214-220
ExitFailed ==
  /\ pc = "loop"
  /\ idx > Len(config.repos)
  /\ failures # <<>>
  /\ exitCode' = 1
  /\ pc' = "exited"
  /\ Forgotten
  /\ UNCHANGED <<idx, cwd, guards, lock, diskLock, lockWrites, successes,
                 failures, outputs, git, upstream, selection, config>>

\* main:222-241
Persist ==
  /\ pc = "loop"
  /\ idx > Len(config.repos)
  /\ failures = <<>>
  /\ lock' = pin(lock, successes)
  /\ diskLock' = lock'
  /\ lockWrites' = lockWrites + 1
  /\ exitCode' = 0
  /\ pc' = "exited"
  /\ Forgotten
  /\ UNCHANGED <<idx, cwd, guards, successes, failures, outputs, git, upstream,
                 selection, config>>

\* main:188-203: the program is started again in the same directory; it reads
\* config-lock.toml and calls clean()
MainStart ==
  /\ pc = "exited"
  /\ pc' = "loop"
  /\ idx' = 1
  /\ cwd' = Root
  /\ guards' = <<>>
  /\ lock' = diskLock
  /\ outputs' = clean(outputs)
  /\ lockWrites' = 0
  /\ successes' = <<>>
  /\ failures' = <<>>
  /\ exitCode' = -1
  /\ Forgotten
  /\ UNCHANGED <<diskLock, git, upstream, selection, config>>

Next ==
  \/ MainStart
  \/ \E n \in Names : UpstreamPush(n)
  \/ BeginRepo
  \/ Clone
  \/ RemoteAdd
  \/ Branch
  \/ Cd
  \/ FetchOrigin
  \/ CheckoutMaster
  \/ ResetBase
  \/ LogHash
  \/ FetchParent
  \/ CheckoutTry
  \/ ResetTry
  \/ Merge
  \/ CheckoutOurs
  \/ AddDocument
  \/ MergeContinue
  \/ MergeAbort
  \/ ResetConflict
  \/ Build1
  \/ RetryReset
  \/ Build2
  \/ LogMsg
  \/ \E cat \in Categories : CopyCd(cat)
  \/ \E cat \in Categories : CopyFiles(cat)
  \/ \E cat \in Categories : CopyPanic(cat)
  \/ WriteHarness
  \/ WriteDirectives
  \/ ReturnOk
  \/ ExitFailed
  \/ Persist

Spec == Init /\ [][Next]_vars

\* ------------------------------- one repository under every configuration
\* The run loop for a configuration of one repository without parent, its
\* skip flags and the three directives taking every value: absent, the empty
\* string, a one-character string.
Directives(c) == {NoString, Some(<<>>), Some(<<c>>)}
EmitConfigs ==
  { [ harness_directive |-> h,
      directive         |-> g,
      repos |-> << [name |-> "A", parent |-> None, directive |-> d,
                    skip_wast |-> sw, skip_wpt |-> sp, skip_js |-> sj] >> ] :
    h \in Directives("h"), g \in Directives("g"), d \in Directives("d"),
    sw \in BOOLEAN, sp \in BOOLEAN, sj \in BOOLEAN }

InitEmit ==
  /\ config \in EmitConfigs
  /\ pc = "loop"
  /\ idx = 1
  /\ cwd = Root
  /\ guards = <<>>
  /\ diskLock = <<>>
  /\ lock = diskLock
  /\ lockWrites = 0
  /\ successes = <<>>
  /\ failures = <<>>
  /\ exitCode = -1
  /\ outputs = {}
  /\ git = [n \in Names |-> NoClone]
  /\ upstream = [n \in Names |-> 1]
  /\ commit_base_hash = 0
  /\ merged = None
  /\ built = TRUE
  /\ commit_final_message = NoTree
  /\ parent_test_path = NoTree
  /\ trace = <<>>
  /\ selection = NoSelection

\* the steps a repository without parent can take
NextEmit ==
  \/ MainStart
  \/ \E n \in Names : UpstreamPush(n)
  \/ BeginRepo
  \/ Clone
  \/ Cd
  \/ FetchOrigin
  \/ CheckoutMaster
  \/ ResetBase
  \/ LogHash
  \/ Build1
  \/ LogMsg
  \/ \E cat \in Categories : CopyCd(cat)
  \/ \E cat \in Categories : CopyFiles(cat)
  \/ \E cat \in Categories : CopyPanic(cat)
  \/ WriteHarness
  \/ WriteDirectives
  \/ ReturnOk
  \/ ExitFailed
  \/ Persist

SpecEmit == InitEmit /\ [][NextEmit]_vars

\* ------------------------------------------------ copy_tests by itself
\* The selection of copy_tests (382-400) for any pattern sets: patterns and
\* paths are strings over three characters, of which "." is the regex
\* metacharacter matching any one character and the other two are literals.
Chars == {"a", "/", "."}
Strings(n) == UNION {[1..k -> Chars] : k \in 0..n}
Patterns == Strings(MaxPatLen)

\* a file's path relative to the scanned directory: components separated by
\* "/", none of them empty, "." or ".."
IsRelPath(s) ==
  /\ Len(s) >= 1
  /\ s[1] # "/"
  /\ s[Len(s)] # "/"
  /\ \A i \in 1..(Len(s) - 1) : ~(s[i] = "/" /\ s[i + 1] = "/")
  /\ \A i \in 1..Len(s) : \A j \in i..Len(s) :
       ( /\ i = 1 \/ s[i - 1] = "/"
         /\ j = Len(s) \/ s[j + 1] = "/"
         /\ \A k \in i..j : s[k] = "." ) => j - i >= 2
RelPaths == {s \in Strings(MaxRelLen) : IsRelPath(s)}

\* copy_tests:385-386: find("./") yields every file as "./" joined with its path
path_str(rel) == <<".", "/">> \o rel

\* Regex::is_match of one pattern, unanchored
regex_match(p, s) ==
  \E off \in 0..(Len(s) - Len(p)) :
    \A k \in 1..Len(p) : p[k] = "." \/ p[k] = s[off + k]

\* RegexSet::is_match: some pattern of the set matches
is_match(set, s) == \E p \in set : regex_match(p, s)

\* the exclude set is not looked at
skipped_ignoring_exclude(include, exclude, s) == ~is_match(include, s)

\* copy_tests:388: the condition of `continue`
skipped(include, exclude, s) == ~is_match(include, s) \/ is_match(exclude, s)

IncludeSets == {{}} \cup {{p1, p2} : p1 \in Patterns, p2 \in Patterns}
ExcludeSets == {{}} \cup {{p} : p \in Patterns}
\* the scanned directory holds the file "a" and one more file
Trees == {{path_str(<<"a">>), path_str(q)} : q \in RelPaths}

InitSelect ==
  /\ config = Config0
  /\ pc = "loop"
  /\ idx = 1
  /\ cwd = Root
  /\ guards = <<>>
  /\ diskLock = <<>>
  /\ lock = diskLock
  /\ lockWrites = 0
  /\ successes = <<>>
  /\ failures = <<>>
  /\ exitCode = -1
  /\ outputs = {}
  /\ git = [n \in Names |-> NoClone]
  /\ upstream = [n \in Names |-> 1]
  /\ commit_base_hash = 0
  /\ merged = None
  /\ built = TRUE
  /\ commit_final_message = NoTree
  /\ parent_test_path = NoTree
  /\ trace = <<>>
  /\ selection \in [include : IncludeSets, exclude : ExcludeSets, todo : Trees,
                     seen : {{}}, copied : {{}}]

mainVars == <<pc, idx, cwd, guards, lock, diskLock, lockWrites, successes, failures,
              exitCode, outputs, git, upstream, commit_base_hash, merged, built,
              commit_final_message, parent_test_path, trace, config>>

\* copy_tests:385-390: the next path is passed over
CopySkip ==
  /\ \E path \in selection.todo :
       /\ skipped(selection.include, selection.exclude, path)
       /\ selection' = [selection EXCEPT !.todo = @ \ {path}, !.seen = @ \cup {path}]
  /\ UNCHANGED mainVars

\* copy_tests:385-399: the next path is copied
CopyOne ==
  /\ \E path \in selection.todo :
       /\ ~skipped(selection.include, selection.exclude, path)
       /\ selection' = [selection EXCEPT !.todo = @ \ {path}, !.seen = @ \cup {path},
                                         !.copied = @ \cup {path}]
  /\ UNCHANGED mainVars

NextSelect == CopySkip \/ CopyOne

SpecSelect == InitSelect /\ [][NextSelect]_vars

\* ------------------------------------- change set and selection by themselves
\* build_repo:350-380 and copy_tests("test/core", "wast") for the files of one
\* source-tests tree; paths and patterns are strings of characters.
wast == <<"w", "a", "s", "t">>
txt == <<"t", "x", "t">>
\* build_repo:369
harness == <<"h", "a", "r", "n", "e", "s", "s", "/">>

\* the files a source-tests tree may hold, relative to test/core:
\* a.wast, ba.wast, d/a.wast, a.txt
TestFiles ==
  { <<"a", ".">> \o wast, <<"b", "a", ".">> \o wast, <<"d", "/", "a", ".">> \o wast,
    <<"a", ".">> \o txt }

\* the position of the last c in p, 0 if there is none
LastIndex(p, c) ==
  LET at == {i \in 1..Len(p) : p[i] = c}
  IN IF at = {} THEN 0 ELSE CHOOSE i \in at : \A j \in at : j <= i

\* Path::file_name (356)
file_name(p) == SubSeq(p, LastIndex(p, "/") + 1, Len(p))

\* Path::extension (352): what follows the last "." of the file name, nothing
\* when the name has no "." after its first character
extension(p) ==
  LET n == file_name(p)
  IN IF LastIndex(n, ".") <= 1 THEN <<>> ELSE SubSeq(n, LastIndex(n, ".") + 1, Len(n))

\* diff (172-177): contents a and b, 0 for a file that cannot be read
diff(a, b) == IF a # 0 /\ b # 0 THEN a # b ELSE TRUE

\* build_repo:350-365: the names of the .wast files, for a child those that
\* differ from the file at the same path below ../<parent>
included_files(child, parent, parented) ==
  { file_name(f) : f \in { t \in DOMAIN child :
                             /\ child[t] # 0
                             /\ extension(t) = wast
                             /\ parented => diff(child[t], parent[t]) } }

\* build_repo:369-371: the changed names, harness/, the repository's patterns
include_patterns(changed, repo_included) == changed \cup {harness} \cup repo_included

\* build_repo:374-376
exclude_patterns(config_excluded, repo_excluded) == config_excluded \cup repo_excluded

\* the trees: a file of the child has content 1; the file at the same path of
\* the parent's working copy is absent (0), the same (1) or another (2)
FileTrees ==
  { t \in [child : [TestFiles -> {0, 1}], parent : [TestFiles -> {0, 1, 2}],
           parented : BOOLEAN] :
      /\ \A f \in TestFiles : t.child[f] = 0 => t.parent[f] = 0
      /\ ~t.parented => \A f \in TestFiles : t.parent[f] = 0 }

InitFiles ==
  /\ config = Config0
  /\ pc = "loop"
  /\ idx = 1
  /\ cwd = Root
  /\ guards = <<>>
  /\ diskLock = <<>>
  /\ lock = diskLock
  /\ lockWrites = 0
  /\ successes = <<>>
  /\ failures = <<>>
  /\ exitCode = -1
  /\ outputs = {}
  /\ git = [n \in Names |-> NoClone]
  /\ upstream = [n \in Names |-> 1]
  /\ commit_base_hash = 0
  /\ merged = None
  /\ built = TRUE
  /\ commit_final_message = NoTree
  /\ parent_test_path = NoTree
  /\ trace = <<>>
  /\ \E t \in FileTrees :
     \E ci \in {{}, {<<"b", "a">>}}, ri \in {{}, {txt}},
        ce \in {{}, {<<"b", "a">>}}, re \in {{}, {<<"d", "/">>}} :
       selection = [ phase |-> "changes", tree |-> t,
                     config_included |-> ci, repo_included |-> ri,
                     config_excluded |-> ce, repo_excluded |-> re,
                     changed |-> {}, include |-> {}, exclude |-> {},
                     todo |-> {}, seen |-> {}, copied |-> {} ]

\* build_repo:350-385: the change set, the two pattern sets, find("./")
ChangeSet ==
  /\ selection.phase = "changes"
  /\ LET changed == included_files(selection.tree.child, selection.tree.parent,
                                   selection.tree.parented)
     IN selection' =
          [selection EXCEPT
             !.phase = "copy",
             !.changed = changed,
             !.include = include_patterns(changed, selection.repo_included),
             !.exclude = exclude_patterns(selection.config_excluded,
                                          selection.repo_excluded),
             !.todo = {path_str(f) : f \in {t \in TestFiles : selection.tree.child[t] # 0}}]
  /\ UNCHANGED mainVars

NextFiles == ChangeSet \/ CopySkip \/ CopyOne

SpecFiles == InitFiles /\ [][NextFiles]_vars

\* ------------------------------------------------- the lock store by itself
\* Lock::set_commit applied, as in main:223-225, for names of the
\* configuration to any store read from config-lock.toml, which may name
\* repositories the configuration no longer has ("Z").
LockEntries == [name : Names \cup {"Z"}, commit : 1..MaxCommit]
LockStores == UNION {[1..k -> LockEntries] : k \in 0..MaxLock}

InitLock ==
  /\ config = Config0
  /\ pc = "loop"
  /\ idx = 1
  /\ cwd = Root
  /\ guards = <<>>
  /\ diskLock \in LockStores
  /\ lock = diskLock
  /\ lockWrites = 0
  /\ successes = <<>>
  /\ failures = <<>>
  /\ exitCode = -1
  /\ outputs = {}
  /\ git = [n \in Names |-> NoClone]
  /\ upstream = [n \in Names |-> 1]
  /\ commit_base_hash = 0
  /\ merged = None
  /\ built = TRUE
  /\ commit_final_message = NoTree
  /\ parent_test_path = NoTree
  /\ trace = <<>>
  /\ selection = [called |-> FALSE, before |-> <<>>, name |-> None, commit |-> 0,
                  last |-> [n \in Names |-> 0]]

\* main:225: one call of set_commit; the call and the store it found are kept
SetCommit(name, commit) ==
  /\ lock' = set_commit(lock, name, commit)
  /\ selection' = [called |-> TRUE, before |-> lock, name |-> name, commit |-> commit,
                   last |-> [selection.last EXCEPT ![name] = commit]]
  /\ UNCHANGED <<config, pc, idx, cwd, guards, diskLock, lockWrites, successes,
                 failures, exitCode, outputs, git, upstream, locals, trace>>

NextLock == \E name \in Names : \E commit \in 1..MaxCommit : SetCommit(name, commit)

SpecLock == InitLock /\ [][NextLock]_vars

\* ============================================================== properties
\* the build_repo call is running
InPipeline == pc \notin {"loop", "exited"}
\* the last build_repo call has returned to main and its trace is still at hand
Returned == pc = "loop" /\ idx > 1
\* the repository the trace belongs to
TraceRepo == IF Returned THEN config.repos[idx - 1] ELSE config.repos[idx]
HasTrace == InPipeline \/ Returned
ReturnedOk ==
  /\ Returned
  /\ successes # <<>>
  /\ successes[Len(successes)].name = TraceRepo.name
ReturnedErr ==
  /\ Returned
  /\ failures # <<>>
  /\ failures[Len(failures)].name = TraceRepo.name
LastStatus == successes[Len(successes)].status

At(cmd) == {i \in DOMAIN trace : trace[i][1] = cmd}
Issued(cmd) == At(cmd) # {}
Failed(cmd) == \E i \in At(cmd) : ~trace[i][2]
Succeeded(cmd) == \E i \in At(cmd) : trace[i][2]
BaseTree == [base |-> commit_base_hash, par |-> 0]

\* C1: in the pipeline of a child repository, a failed first invocation of the
\* generation tool is followed by the hard reset to commit_base_hash and, that
\* reset done, by exactly one more invocation on the baseline tree; the tool
\* is never invoked a third time, two failures give built = false, and after
\* a successful first invocation there is neither a reset nor a second one.
C1_RetryOnce ==
  (HasTrace /\ TraceRepo.parent # None) =>
    /\ Cardinality(At("build")) <= 2
    /\ \A i \in At("build") :
         (\A j \in At("build") : i <= j) =>
           IF trace[i][2]
           THEN /\ At("build") = {i}
                /\ ~Issued("retry_reset")
                /\ built
                /\ ReturnedOk => LastStatus.built
           ELSE /\ i = Len(trace) => pc = "retry_reset"
                /\ i < Len(trace) =>
                     /\ trace[i + 1][1] = "retry_reset"
                     /\ ~trace[i + 1][2] => (i + 1 = Len(trace) /\ ReturnedErr)
                     /\ (trace[i + 1][2] /\ i + 1 = Len(trace)) =>
                          /\ pc = "build2"
                          /\ WorkTree(git[TraceRepo.name]) = BaseTree
                     /\ (trace[i + 1][2] /\ i + 1 < Len(trace)) =>
                          /\ trace[i + 2][1] = "build"
                          /\ Cardinality(At("build")) = 2
                          /\ built = trace[i + 2][2]
                          /\ ReturnedOk => LastStatus.built = trace[i + 2][2]

\* a child's pipeline returned a Status after the tool failed twice
C1_Witness ==
  /\ ReturnedOk
  /\ TraceRepo.parent # None
  /\ Cardinality(At("build")) = 2
  /\ ~Succeeded("build")
  /\ Succeeded("retry_reset")
  /\ ~LastStatus.built

MergeCmds == {"fetch_parent", "checkout_try", "reset_try", "merge", "ours", "add",
              "continue", "abort", "reset_conflict"}

\* C2: in the pipeline of a repository without parent no merge-related command
\* and no retry is ever issued, the merge outcome is Unmerged, and once the
\* build step is over the tool has been invoked exactly once, its exit being
\* the value of built.
C2_RootUnmergedOneBuild ==
  (HasTrace /\ TraceRepo.parent = None) =>
    /\ \A i \in DOMAIN trace : trace[i][1] \notin MergeCmds \cup {"retry_reset"}
    /\ merged \in {None, "Unmerged"}
    /\ Cardinality(At("build")) <= 1
    /\ (pc = "log_msg" \/ Issued("log_msg")) =>
         /\ Cardinality(At("build")) = 1
         /\ \A i \in At("build") : built = trace[i][2]
    /\ ReturnedOk =>
         /\ LastStatus.merged = "Unmerged"
         /\ Cardinality(At("build")) = 1
         /\ \A i \in At("build") : LastStatus.built = trace[i][2]

\* a root repository's pipeline returned a Status after its one build failed
C2_Witness ==
  /\ ReturnedOk
  /\ TraceRepo.parent = None
  /\ Failed("build")
  /\ ~LastStatus.built
  /\ LastStatus.merged = "Unmerged"

\* the merge step of the running or returned call is over: it gave an outcome,
\* or build_repo returned Err from one of its commands
MergeStepErr ==
  /\ ReturnedErr
  /\ trace # <<>>
  /\ trace[Len(trace)][1] \in {"fetch_parent", "checkout_try", "reset_try", "abort",
                                "reset_conflict"}
MergeStepDone == (pc = "build1" /\ merged \in {"Merged", "Conflicted"}) \/ MergeStepErr

\* C3: on every path by which the merge step of a child's pipeline finishes
\* (Merged, Conflicted, or an Err return) no merge is left in progress.
C3_NeverMidMerge ==
  (HasTrace /\ TraceRepo.parent # None /\ MergeStepDone) =>
    ~git[TraceRepo.name].merging

\* C4: when the merge step reports Conflicted (the automatic merge failed and
\* one of checkout --ours, add, merge --continue failed), the checked-out tree
\* is the tree at commit_base_hash, with nothing staged and no merge in progress.
C4_ConflictedIsBaseline ==
  (HasTrace /\ merged = "Conflicted") =>
    /\ Failed("merge")
    /\ Failed("ours") \/ Failed("add") \/ Failed("continue")
    /\ pc = "build1" =>
         /\ WorkTree(git[TraceRepo.name]) = BaseTree
         /\ git[TraceRepo.name].head = "try-merge"
         /\ ~git[TraceRepo.name].merging
         /\ ~git[TraceRepo.name].staged

\* the merge step reports Conflicted after the document was staged and the
\* merge could not be continued
C4_Witness ==
  /\ pc = "build1"
  /\ merged = "Conflicted"
  /\ Succeeded("add")
  /\ Failed("continue")

Recoverable == {"merge", "ours", "add", "continue", "build"}

C6_LockOnlyOnFullSuccess ==
  /\ lockWrites <= 1
  /\ lockWrites = 0 => diskLock = lock
  /\ lockWrites = 1 =>
       /\ pc = "exited"
       /\ exitCode = 0
       /\ failures = <<>>
       /\ {successes[i].name : i \in DOMAIN successes} = Names
       /\ \A i \in DOMAIN successes :
            find_commit(diskLock, successes[i].name) = successes[i].status.commit_base_hash

\* a run failed after an earlier run had written the lock: the file is untouched
C6_Witness ==
  /\ pc = "exited"
  /\ exitCode = 1
  /\ lockWrites = 0
  /\ diskLock # <<>>
  /\ successes # <<>>

\* C7 as stated: once a build_repo call has returned Err, no later repository
\* has its pipeline started.
C7_AbortsRemainingRun == InPipeline => failures = <<>>

\* C7 amended: an Err does not stop the loop; a run that ends by itself has
\* processed every repository of the configuration, and it exits with status 1
\* exactly when at least one call returned Err, with status 0 otherwise.
C7_AllProcessedThenExit ==
  /\ InPipeline => Len(successes) + Len(failures) = idx - 1
  /\ (pc = "exited" /\ exitCode \in {0, 1}) =>
       /\ Len(successes) + Len(failures) = Len(config.repos)
       /\ {successes[i].name : i \in DOMAIN successes}
            \cup {failures[i].name : i \in DOMAIN failures} = Names
       /\ exitCode = 1 <=> failures # <<>>

\* the first repository failed, the second was still processed, the run exits 1
C7_Witness ==
  /\ pc = "exited"
  /\ exitCode = 1
  /\ Len(failures) = 1
  /\ failures[1].name = config.repos[1].name
  /\ Len(successes) = 1
  /\ successes[1].name = config.repos[2].name

\* C8 (state part): once resolved, commit_base_hash is the lock's commit for
\* the name when the lock has one, and the fetched upstream tip otherwise.
C8_BaseResolved ==
  (HasTrace /\ commit_base_hash # 0) =>
    IF find_commit(lock, TraceRepo.name) # 0
    THEN commit_base_hash = find_commit(lock, TraceRepo.name)
    ELSE commit_base_hash = git[TraceRepo.name].origin

\* C8 (step part): a commit pinned in config-lock.toml is never replaced
C8_PinStable ==
  \A n \in Names :
    find_commit(diskLock, n) # 0 => find_commit(diskLock', n) = find_commit(diskLock, n)

\* C8: the base revision is the lock's commit when present and the upstream
\* tip otherwise, and a pinned commit stays pinned, so every later run resolves
\* the commit it pinned however upstream has moved.
C8_PinnedBase == [](C8_BaseResolved) /\ [][C8_PinStable]_vars

\* a pinned repository resolves its pin although upstream has moved on
C8_Witness ==
  /\ HasTrace
  /\ commit_base_hash # 0
  /\ find_commit(lock, TraceRepo.name) = commit_base_hash
  /\ upstream[TraceRepo.name] > commit_base_hash

\* C9: the process is in the run root whenever main's loop is between two
\* build_repo calls and while a call initialises its clone, whatever the way
\* the previous call returned; inside a call it is in the clone except during
\* a copy_tests call, which leaves it in the clone again.
C9_CwdRestored ==
  /\ pc \in {"loop", "clone", "remote_add", "branch", "cd"} => (cwd = Root /\ guards = <<>>)
  /\ (InPipeline /\ pc \notin {"clone", "remote_add", "branch", "cd"}) =>
       IF \E cat \in Categories : pc = CopyPc[cat]
       THEN \A cat \in Categories :
              pc = CopyPc[cat] => cwd = repo_dir(Cur.name) \o test_dir(cat)
       ELSE cwd = repo_dir(Cur.name) /\ guards = <<Root>>

\* a call starts in the run root after the previous one returned Err from
\* inside its clone
C9_Witness ==
  /\ pc \in {"clone", "cd"}
  /\ idx = 2
  /\ cwd = Root
  /\ failures # <<>>
  /\ failures[1].err = "log_msg"

\* C10: a path the loop of copy_tests has looked at is copied if and only if
\* some include pattern matches it and no exclude pattern does; matched by
\* both it is not copied, matched by no include pattern it is not copied,
\* whatever the exclude set.
C10_IncludeAndNotExclude ==
  /\ selection.copied \subseteq selection.seen
  /\ \A s \in selection.seen :
       LET inc == \E p \in selection.include : regex_match(p, s)
           exc == \E p \in selection.exclude : regex_match(p, s)
       IN /\ s \in selection.copied <=> (inc /\ ~exc)
          /\ (inc /\ exc) => s \notin selection.copied
          /\ ~inc => s \notin selection.copied

\* one path matched by both sets was passed over, another one was copied
C10_Witness ==
  /\ selection.todo = {}
  /\ \E s \in selection.seen :
       /\ is_match(selection.include, s)
       /\ is_match(selection.exclude, s)
       /\ s \notin selection.copied
  /\ selection.copied # {}

\* C12: every directory files are copied into, and every directive file, lies
\* in the one output tree at the run root, under tests/<category>/<repoName>.
C12_SingleOutputTree ==
  \A d \in outputs :
    /\ Len(d.path) >= 3
    /\ d.path[1] = "tests"
    /\ d.path[2] \in Categories
    /\ d.path[3] \in Names

\* C14: in a run without failure, the change set of a child whose merge went
\* through is computed against the parent's tip, the parent revision that was
\* merged.
C14_DiffAgainstMergedTip ==
  ( /\ HasTrace
    /\ failures = <<>>
    /\ TraceRepo.parent # None
    /\ Succeeded("log_msg")
    /\ merged = "Merged"
    /\ ~Issued("retry_reset") ) =>
    parent_test_path = [base |-> git[TraceRepo.name].parentref, par |-> 0]

\* C17: a child's pipeline at the merge step works on a clone that has the
\* parent remote and the try-merge branch, and a directory a call takes for an
\* initialised clone is one.
C17_InitialisedAtMerge ==
  /\ (InPipeline /\ pc \in {"fetch_parent", "checkout_try", "reset_try", "merge"}) =>
       (G.cloned /\ G.remote /\ G.trybranch)
  /\ (InPipeline /\ pc = "cd") =>
       (G.cloned /\ (Cur.parent # None => (G.remote /\ G.trybranch)))

\* C18: once the retry reset of a child whose merge step gave Merged has been
\* done, the checked-out tree is the tree at commit_base_hash for the rest of
\* the call (second build, final message, change set, copies), and the merge
\* outcome, also the one of the returned Status, is still Merged.
C18_RetryKeepsMerged ==
  ( /\ HasTrace
    /\ TraceRepo.parent # None
    /\ Succeeded("merge") \/ Succeeded("continue")
    /\ Succeeded("retry_reset") ) =>
    /\ merged = "Merged"
    /\ WorkTree(git[TraceRepo.name]) = BaseTree
    /\ Succeeded("log_msg") => commit_final_message = BaseTree
    /\ ReturnedOk =>
         /\ LastStatus.merged = "Merged"
         /\ LastStatus.commit_final_message = BaseTree
         /\ LastStatus.commit_base_hash = commit_base_hash

\* a child returned Merged although its files were copied after the retry reset
C18_Witness ==
  /\ ReturnedOk
  /\ TraceRepo.parent # None
  /\ Succeeded("merge")
  /\ Succeeded("retry_reset")
  /\ Issued("copy_wast")
  /\ LastStatus.merged = "Merged"
  /\ git[TraceRepo.name].parentref # 0

\* C19: the generated files that are copied were all written by the latest
\* invocation of the tool, the one that exited zero in this call.
C19_CopiedIsFresh ==
  (InPipeline /\ pc \in {CopyPc["wpt"], CopyPc["js"]}) => G.gen = "fresh"

\* C15: the generated web-platform and script tests are copied only with
\* built = true and the skip flag unset, the source tests whenever skip_wast
\* is unset, whatever built is; a call that returns Ok has copied exactly
\* these categories.
C15_CopyGating ==
  /\ (InPipeline /\ pc \in {CdPc["wast"], CopyPc["wast"]}) => ~Cur.skip_wast
  /\ (InPipeline /\ pc \in {CdPc["wpt"], CopyPc["wpt"]}) => (built /\ ~Cur.skip_wpt)
  /\ (InPipeline /\ pc \in {CdPc["js"], CopyPc["js"]}) => (built /\ ~Cur.skip_js)
  /\ ReturnedOk =>
       /\ Issued("copy_wast") <=> ~TraceRepo.skip_wast
       /\ Issued("copy_wpt") <=> (LastStatus.built /\ ~TraceRepo.skip_wpt)
       /\ Issued("copy_js") <=> (LastStatus.built /\ ~TraceRepo.skip_js)

\* a repository that skips nothing failed to build: only its source tests
\* were copied
C15_Witness ==
  /\ ReturnedOk
  /\ ~LastStatus.built
  /\ ~TraceRepo.skip_wast /\ ~TraceRepo.skip_wpt /\ ~TraceRepo.skip_js
  /\ Issued("copy_wast")
  /\ ~Issued("copy_wpt")
  /\ ~Issued("copy_js")

\* the directive files of the repository whose call has returned
HarnessFiles ==
  {f \in outputs : /\ f.kind = "file"
                   /\ f.path = <<"tests", "js", TraceRepo.name, "harness", "directives.txt">>}
DirectiveFiles ==
  {f \in outputs : /\ f.kind = "file"
                   /\ f.path = <<"tests", "js", TraceRepo.name, "directives.txt">>}
\* the global directive followed by the repository's
Concatenation ==
  (IF config.directive = NoString THEN <<>> ELSE config.directive[1])
  \o (IF TraceRepo.directive = NoString THEN <<>> ELSE TraceRepo.directive[1])

\* C16 as stated: after a call that returned Ok, harness/directives.txt is
\* there exactly when the build succeeded and a harness directive is
\* configured, directives.txt exactly when the build succeeded and the
\* concatenation is not empty.
C16_DirectivesWhenBuilt ==
  ReturnedOk =>
    /\ HarnessFiles # {} <=> (LastStatus.built /\ config.harness_directive # NoString)
    /\ DirectiveFiles # {} <=> (LastStatus.built /\ Concatenation # <<>>)

\* C16 amended: after a call that returned Ok, harness/directives.txt is there
\* exactly when the build succeeded, skip_js is unset and a harness directive
\* is configured, and it holds that directive; directives.txt is there exactly
\* when the build succeeded, skip_js is unset and the concatenation is not
\* empty, and it holds the concatenation.
C16_DirectivesWhenJsEmitted ==
  ReturnedOk =>
    /\ HarnessFiles # {} <=>
         (LastStatus.built /\ ~TraceRepo.skip_js /\ config.harness_directive # NoString)
    /\ \A f \in HarnessFiles : f.text = config.harness_directive[1]
    /\ DirectiveFiles # {} <=>
         (LastStatus.built /\ ~TraceRepo.skip_js /\ Concatenation # <<>>)
    /\ \A f \in DirectiveFiles : f.text = Concatenation

\* both directives configured and different, an empty harness directive: the
\* two files are there
C16_Witness ==
  /\ ReturnedOk
  /\ config.directive = Some(<<"g">>)
  /\ TraceRepo.directive = Some(<<"d">>)
  /\ config.harness_directive = Some(<<>>)
  /\ HarnessFiles # {}
  /\ DirectiveFiles # {}

\* C11: the include set holds every changed name, harness/, the repository's
\* and the global configuration's explicit patterns, so that a path matched by
\* a global pattern and by no exclude pattern is copied.
C11_GlobalIncludeApplies ==
  selection.phase = "copy" =>
    /\ selection.changed \cup {harness} \cup selection.repo_included
         \cup selection.config_included \subseteq selection.include
    /\ \A s \in selection.seen :
         (is_match(selection.config_included, s) /\ ~is_match(selection.exclude, s))
           => s \in selection.copied

\* C13: for a child without include and exclude patterns, once the copy is
\* over, a .wast file has been copied exactly when its content differs from
\* the parent's file at the same path or the parent has no such file.
C13_CopiedIffChanged ==
  ( /\ selection.phase = "copy"
    /\ selection.todo = {}
    /\ selection.tree.parented
    /\ selection.repo_included = {} /\ selection.config_included = {}
    /\ selection.exclude = {} ) =>
    \A f \in TestFiles :
      (selection.tree.child[f] # 0 /\ extension(f) = wast) =>
        ( path_str(f) \in selection.copied
            <=> (selection.tree.parent[f] = 0
                   \/ selection.tree.parent[f] # selection.tree.child[f]) )

\* the entries of a store for a name
Count(l, n) == Cardinality({i \in DOMAIN l : l[i].name = n})

\* C20: a call set_commit(name, commit) appends the entry when the store has
\* none for name and otherwise overwrites the commit of the first one in
\* place; every other entry, also of names the configuration does not have,
\* is as it was; no name with at most one entry gets a second one; and after
\* any sequence of calls find_commit gives, for every name set so far, the
\* commit of the last call for it.
C20_SetCommitFrame ==
  selection.called =>
    LET b == selection.before
        n == selection.name
        c == selection.commit
    IN /\ Count(b, n) = 0 => lock = Append(b, [name |-> n, commit |-> c])
       /\ Count(b, n) > 0 =>
            /\ Len(lock) = Len(b)
            /\ \E k \in DOMAIN b :
                 /\ b[k].name = n
                 /\ \A j \in 1..(k - 1) : b[j].name # n
                 /\ lock[k] = [name |-> n, commit |-> c]
                 /\ \A i \in DOMAIN b : i # k => lock[i] = b[i]
       /\ \A i \in DOMAIN b : b[i].name # n => lock[i] = b[i]
       /\ \A m \in Names \cup {"Z"} : Count(b, m) <= 1 => Count(lock, m) <= 1
       /\ find_commit(lock, n) = c
       /\ \A m \in Names : selection.last[m] # 0 => find_commit(lock, m) = selection.last[m]

\* an existing entry was overwritten with another commit in a store that also
\* names a repository the configuration does not have, after an earlier call
\* for another name
C20_Witness ==
  /\ selection.called
  /\ Count(selection.before, selection.name) = 1
  /\ find_commit(selection.before, selection.name) # selection.commit
  /\ Count(lock, "Z") = 1
  /\ \A m \in Names : selection.last[m] # 0
  /\ Len(lock) = Len(selection.before)

====
